---- MODULE Spec2Model ----
(***************************************************************************)
(* A model of the weighted-graph library (src/src/lib/lib.rs) and of its   *)
(* shortest-path query and path-cost function (src/src/lib/alg.rs).        *)
(*                                                                         *)
(* A node reference (Rc<RefCell<Node<T>>>) is modelled by the value of the *)
(* node it points to: Graph::add_node keeps the values of the stored nodes *)
(* distinct, every lookup of the library compares values, and a value is   *)
(* set once by Node::new.  A handle passed to find_path or add_edge whose  *)
(* value is stored in the graph is the graph's own node (the handle that   *)
(* add_node or get_node returned), a handle whose value is not stored is a *)
(* node outside the graph.                                                 *)
(***************************************************************************)
EXTENDS Integers, Sequences, FiniteSets, TLC

\* ------------------------------------------------------------------ bounds

\* The values handed to add_node and add_edge when only a graph is built are
\* 1..MaxValue.
MaxValue == 2
\* A graph that is queried or whose paths are costed has the nodes 1, 2, ...,
\* at most MaxNodes of them; queries name the values 1..MaxNodes.
MaxNodes == 3
\* Edge weights are drawn from {1, MaxWeight}.
MaxWeight == 3
\* Graph::add_edge is called while the graph holds fewer than MaxEdges edges.
MaxEdges == 3
\* find_path is called at most MaxQueries times on one graph.
MaxQueries == 2
\* calculate_path_cost is given sequences of at most MaxPathLen nodes.
MaxPathLen == 2

Values == 1..MaxValue
NodeValues == 1..MaxNodes
Weights == {1, MaxWeight}

\* u32::MAX, the distance Node::new gives a node.  TLC's integers are 32-bit
\* signed, so u32 is modelled one bit narrower: all u32 arithmetic below is
\* modulo U32_MAX + 1.
U32_MAX == 2147483647

VARIABLES
    directed,   \* Graph.directed
    nodes,      \* Graph.nodes: a sequence of Node records
    call,       \* the last API call: its name, arguments and return value
    queries,    \* number of find_path calls made so far
    pc,         \* position of the running find_path: "idle", "loop", "edges"
    start,      \* find_path's start argument (a node value)
    end,        \* find_path's end argument (a node value)
    unvisited,  \* find_path's unvisited_nodes: the node values in the queue
    closest,    \* find_path's closest_node (a node value), 0 before a pop
    ei,         \* index of the next edge of closest_node the for loop visits
    result,     \* what the last find_path returned
    build,      \* overflow-checks of the build, fixed by the first overflow
    first       \* the caller's copy of what the first find_path returned

vars == <<directed, nodes, call, queries, pc, start, end,
          unvisited, closest, ei, result, build, first>>

queryVars == <<pc, start, end, unvisited, closest, ei, result, build, first>>

\* ------------------------------------------------------------ Node, Edge

\* Node::new
NodeNew(v) ==
    [value |-> v, edges |-> <<>>, distance |-> U32_MAX, path |-> <<>>]

\* Edge::new
EdgeNew(w, t) == [weight |-> w, node |-> t]

\* The for loop of Node::add_edge: an edge to the same target is already held.
HasEdgeTo(n, t) == \E i \in 1..Len(n.edges) : n.edges[i].node = t

\* A variant of Node::add_edge without the duplicate check.
NodeAddEdgeNoDedup(n, w, t) ==
    [n EXCEPT !.edges = Append(@, EdgeNew(w, t))]

\* Node::add_edge
NodeAddEdge(n, w, t) ==
    IF HasEdgeTo(n, t) THEN n
    ELSE [n EXCEPT !.edges = Append(@, EdgeNew(w, t))]

\* ------------------------------------------------------------------ Graph

\* iter().position(|n| value of n == v): the first index holding v, 0 for None.
Position(ns, v) ==
    IF \E i \in 1..Len(ns) : ns[i].value = v
    THEN CHOOSE i \in 1..Len(ns) :
            /\ ns[i].value = v
            /\ \A j \in 1..(i - 1) : ns[j].value # v
    ELSE 0

\* Graph::exists
Exists(ns, v) == Position(ns, v) # 0

\* Graph::get_node, for a value that is stored
GetNode(ns, v) == ns[Position(ns, v)]

\* A variant of Graph::add_node without the duplicate check.
AddNodeNoCheck(ns, v) == Append(ns, NodeNew(v))

\* Graph::add_node: the node sequence it leaves
AddNodeNodes(ns, v) ==
    IF \E i \in 1..Len(ns) : ns[i].value = v THEN ns
    ELSE Append(ns, NodeNew(v))

\* Graph::add_node: TRUE for Some, FALSE for None
AddNodeRet(ns, v) == ~(\E i \in 1..Len(ns) : ns[i].value = v)

\* A variant of Graph::add_edge that adds the reverse edge whatever the flag.
AddEdgeAlwaysReverse(ns, d, f, t, w) ==
    LET fi == Position(ns, f)
        ti == Position(ns, t)
    IN  IF fi = 0 \/ ti = 0 THEN ns
        ELSE LET ns1 == [ns EXCEPT ![fi] = NodeAddEdge(@, w, t)]
             IN  [ns1 EXCEPT ![ti] = NodeAddEdge(@, w, f)]

\* A variant of Graph::add_edge that never adds the reverse edge.
AddEdgeNeverReverse(ns, d, f, t, w) ==
    LET fi == Position(ns, f)
        ti == Position(ns, t)
    IN  IF fi = 0 \/ ti = 0 THEN ns
        ELSE [ns EXCEPT ![fi] = NodeAddEdge(@, w, t)]

\* Graph::add_edge: the node sequence it leaves
AddEdgeNodes(ns, d, f, t, w) ==
    LET fi == Position(ns, f)
        ti == Position(ns, t)
    IN  IF fi = 0 \/ ti = 0 THEN ns
        ELSE LET ns1 == [ns EXCEPT ![fi] = NodeAddEdge(@, w, t)]
             IN  IF ~d THEN [ns1 EXCEPT ![ti] = NodeAddEdge(@, w, f)]
                 ELSE ns1

\* Graph::add_edge: its return value (both return statements return false)
AddEdgeRet(ns, f, t) ==
    IF Position(ns, f) = 0 \/ Position(ns, t) = 0 THEN FALSE ELSE FALSE

\* ----------------------------------------------------- calculate_path_cost

\* u32 addition: the sum and whether it overflowed.
AddU32(a, b) ==
    IF a > U32_MAX - b
    THEN [overflow |-> TRUE, value |-> a - (U32_MAX - b) - 1]
    ELSE [overflow |-> FALSE, value |-> a + b]

\* The inner for loop of calculate_path_cost: the weights of the edges of node
\* a whose target is b, summed.
RECURSIVE PairCost(_, _, _)
PairCost(edges, b, k) ==
    IF k > Len(edges) THEN 0
    ELSE (IF edges[k].node = b THEN edges[k].weight ELSE 0)
         + PairCost(edges, b, k + 1)

\* The outer for loop of calculate_path_cost over i in from..path.len() - 2.
RECURSIVE CostFrom(_, _, _)
CostFrom(ns, path, i) ==
    IF i > Len(path) - 1 THEN 0
    ELSE PairCost(GetNode(ns, path[i]).edges, path[i + 1], 1)
         + CostFrom(ns, path, i + 1)

\* calculate_path_cost.  path.len() - 1 is a usize subtraction: on the empty
\* path it panics with overflow checks, and without them wraps to usize::MAX,
\* so that the loop indexes path[0] of an empty vector and panics as well.
CalculatePathCost(ns, path) ==
    IF Len(path) = 0 THEN [panic |-> TRUE, cost |-> 0]
    ELSE [panic |-> FALSE, cost |-> CostFrom(ns, path, 1)]

\* ---------------------------------------------------------------- find_path

\* A variant of the precondition checks that looks for start before end.
PrecheckStartFirst(ns, s, e) ==
    IF Len(ns) = 0 THEN "No nodes exist in graph"
    ELSE IF s = e THEN "Start and end nodes are the same"
    ELSE IF ~Exists(ns, s) THEN "Start node does not exist in graph"
    ELSE IF ~Exists(ns, e) THEN "End node does not exist in graph"
    ELSE ""

\* The four precondition checks of find_path, in order: the reason of the
\* first one that fails, "" when all pass.
Precheck(ns, s, e) ==
    IF Len(ns) = 0 THEN "No nodes exist in graph"
    ELSE IF s = e THEN "Start and end nodes are the same"
    ELSE IF ~Exists(ns, e) THEN "End node does not exist in graph"
    ELSE IF ~Exists(ns, s) THEN "Start node does not exist in graph"
    ELSE ""

\* A find_path that would reset the scratch state of the other nodes.
SetStartDistanceReset(ns, s) ==
    [i \in 1..Len(ns) |->
        [ns[i] EXCEPT !.distance = IF ns[i].value = s THEN 0 ELSE U32_MAX]]

\* start.borrow_mut().set_distance(0)
SetStartDistance(ns, s) == [ns EXCEPT ![Position(ns, s)].distance = 0]

\* The queue built from graph.get_nodes(): every stored node.
BuildQueue(ns) == {ns[i].value : i \in 1..Len(ns)}

\* unvisited_nodes.pop(): the nodes pop may return, those of the greatest
\* priority Reverse(distance).  change_priority keeps a queued node's
\* priority equal to its distance.  Among equal priorities the queue's own
\* order decides, so any of them may come out.
PopChoices(ns, q) ==
    {c \in q : \A o \in q : GetNode(ns, c).distance <= GetNode(ns, o).distance}

\* A variant of the returned path that leaves the start node out.
FoundPathNoStart(ns, s, c, node) == GetNode(ns, c).path \o <<node>>

\* The path find_path returns when the edge's target is end: the start node,
\* closest_node's path, the target.
FoundPath(ns, s, c, node) == <<s>> \o GetNode(ns, c).path \o <<node>>

\* Relaxation: set_distance(distance) and set_path(closest's path + node).
RelaxNode(ns, c, node, distance) ==
    [ns EXCEPT ![Position(ns, node)] =
        [@ EXCEPT !.distance = distance,
                  !.path = GetNode(ns, c).path \o <<node>>]]

\* ------------------------------------------------------------------ state

NoResult == [kind |-> "none", reason |-> "", path |-> <<>>]
Ok(path) == [kind |-> "Ok", reason |-> "", path |-> path]
CannotFindPath(reason) ==
    [kind |-> "CannotFindPath", reason |-> reason, path |-> <<>>]
CannotFindClosestNode ==
    [kind |-> "CannotFindClosestNode", reason |-> "", path |-> <<>>]
Panicked == [kind |-> "panic", reason |-> "", path |-> <<>>]

NoCall == [op |-> "none", from |-> 0, to |-> 0, weight |-> 0, path |-> <<>>,
           ret |-> FALSE, panic |-> FALSE, cost |-> 0]

Init ==
    /\ directed \in BOOLEAN
    /\ nodes = <<>>
    /\ call = NoCall
    /\ queries = 0
    /\ pc = "idle"
    /\ start = 0
    /\ end = 0
    /\ unvisited = {}
    /\ closest = 0
    /\ ei = 0
    /\ result = NoResult
    /\ build = "unknown"
    /\ first = NoResult

\* ------------------------------------------------------- graph operations

\* graph.add_node(Node::new(v))
AddNode(v) ==
    /\ pc = "idle"
    /\ nodes' = AddNodeNodes(nodes, v)
    /\ call' = [NoCall EXCEPT !.op = "add_node", !.from = v,
                              !.ret = AddNodeRet(nodes, v)]
    /\ UNCHANGED <<directed, queries, queryVars>>

\* The number of edges the nodes from index i on hold.
RECURSIVE TotalEdges(_, _)
TotalEdges(ns, i) ==
    IF i > Len(ns) THEN 0 ELSE Len(ns[i].edges) + TotalEdges(ns, i + 1)

\* graph.add_edge(f, t, w)
AddEdge(f, t, w) ==
    /\ pc = "idle"
    /\ TotalEdges(nodes, 1) < MaxEdges
    /\ nodes' = AddEdgeNodes(nodes, directed, f, t, w)
    /\ call' = [NoCall EXCEPT !.op = "add_edge", !.from = f, !.to = t,
                              !.weight = w, !.ret = AddEdgeRet(nodes, f, t)]
    /\ UNCHANGED <<directed, queries, queryVars>>

\* Sequences of at most n values of S.
RECURSIVE PathsUpTo(_, _)
PathsUpTo(S, n) ==
    IF n = 0 THEN {<<>>}
    ELSE LET shorter == PathsUpTo(S, n - 1)
         IN  shorter \cup {Append(p, v) : p \in shorter, v \in S}

StoredValues == {nodes[i].value : i \in 1..Len(nodes)}

\* calculate_path_cost(&path) on a vector of handles to stored nodes
PathCost(path) ==
    /\ pc = "idle"
    /\ LET r == CalculatePathCost(nodes, path)
       IN  call' = [NoCall EXCEPT !.op = "calculate_path_cost", !.path = path,
                                  !.panic = r.panic, !.cost = r.cost]
    /\ UNCHANGED <<directed, nodes, queries, queryVars>>

\* ------------------------------------------------------- find_path, by step

\* find_path(&mut graph, s, e) up to the while loop: the precondition checks,
\* start's distance, the queue.
FindPathEntry(s, e) ==
    /\ pc = "idle"
    /\ queries < MaxQueries
    /\ queries' = queries + 1
    /\ call' = [NoCall EXCEPT !.op = "find_path", !.from = s, !.to = e]
    /\ start' = s
    /\ end' = e
    /\ closest' = 0
    /\ ei' = 0
    /\ IF Precheck(nodes, s, e) # ""
       THEN /\ result' = CannotFindPath(Precheck(nodes, s, e))
            /\ pc' = "idle"
            /\ UNCHANGED <<nodes, unvisited>>
       ELSE /\ result' = NoResult
            /\ nodes' = SetStartDistance(nodes, s)
            /\ unvisited' = BuildQueue(nodes)
            /\ pc' = "loop"
    /\ UNCHANGED <<directed, build>>

\* A call of find_path(&mut graph, s, e).
FindPath(s, e) ==
    /\ FindPathEntry(s, e)
    /\ UNCHANGED first

\* The call of find_path repeated with the same start and end, as in the loop
\* of tests::directed_vs_undirected; the caller keeps the first result.
FindPathAgain ==
    /\ queries >= 1
    /\ call.op = "find_path"
    /\ FindPathEntry(start, end)
    /\ first' = IF queries = 1 THEN result ELSE first

\* find_path returns r: its locals are dropped.
Return(r) ==
    /\ result' = r
    /\ pc' = "idle"
    /\ unvisited' = {}
    /\ closest' = 0
    /\ ei' = 0

\* The while condition and the pop.  A popped node without edges leaves the
\* for loop at once.
Pop ==
    /\ pc = "loop"
    /\ IF unvisited = {}
       THEN Return(CannotFindPath("No path found"))
       ELSE IF PopChoices(nodes, unvisited) = {}
       THEN Return(CannotFindClosestNode)
       ELSE \E c \in PopChoices(nodes, unvisited) :
               /\ closest' = c
               /\ unvisited' = unvisited \ {c}
               /\ IF Len(GetNode(nodes, c).edges) = 0
                  THEN pc' = "loop" /\ ei' = 0
                  ELSE pc' = "edges" /\ ei' = 1
               /\ result' = result
    /\ UNCHANGED <<directed, nodes, call, queries, start, end, build, first>>

\* The for loop moves to the next edge, or ends.
NextEdge ==
    /\ result' = result
    /\ unvisited' = unvisited
    /\ closest' = closest
    /\ IF ei < Len(GetNode(nodes, closest).edges)
       THEN pc' = "edges" /\ ei' = ei + 1
       ELSE pc' = "loop" /\ ei' = 0

\* One pass of the for loop whose edge leads to end: the path is returned.
VisitEnd ==
    /\ pc = "edges"
    /\ LET e == GetNode(nodes, closest).edges[ei]
       IN  /\ e.node = end
           /\ IF ~Exists(nodes, start)
              THEN Return(CannotFindPath("Start node does not exist in graph"))
              ELSE Return(Ok(FoundPath(nodes, start, closest, e.node)))
    /\ UNCHANGED <<directed, nodes, call, queries, start, end, build, first>>

\* One pass of the for loop on an edge that does not lead to end and whose
\* sum closest.distance + weight fits u32.
VisitEdge ==
    /\ pc = "edges"
    /\ LET c == GetNode(nodes, closest)
           e == c.edges[ei]
           sum == AddU32(c.distance, e.weight)
       IN  /\ e.node # end
           /\ ~(e.node \in unvisited /\ sum.overflow)
           /\ IF e.node \in unvisited
                 /\ sum.value < GetNode(nodes, e.node).distance
              THEN nodes' = RelaxNode(nodes, closest, e.node, sum.value)
              ELSE nodes' = nodes
    /\ NextEdge
    /\ UNCHANGED <<directed, call, queries, start, end, build, first>>

\* The same pass when the sum overflows, in a build with overflow checks:
\* the addition panics.
VisitEdgeOverflowPanic ==
    /\ pc = "edges"
    /\ build \in {"unknown", "checked"}
    /\ LET c == GetNode(nodes, closest)
           e == c.edges[ei]
       IN  /\ e.node # end
           /\ e.node \in unvisited
           /\ AddU32(c.distance, e.weight).overflow
    /\ build' = "checked"
    /\ result' = Panicked
    /\ pc' = "panicked"
    /\ UNCHANGED <<directed, nodes, call, queries, start, end, unvisited,
                   closest, ei, first>>

\* The same pass when the sum overflows, in a build without overflow checks:
\* the sum wraps around.
VisitEdgeOverflowWrap ==
    /\ pc = "edges"
    /\ build \in {"unknown", "unchecked"}
    /\ LET c == GetNode(nodes, closest)
           e == c.edges[ei]
           sum == AddU32(c.distance, e.weight)
       IN  /\ e.node # end
           /\ e.node \in unvisited
           /\ sum.overflow
           /\ IF sum.value < GetNode(nodes, e.node).distance
              THEN nodes' = RelaxNode(nodes, closest, e.node, sum.value)
              ELSE nodes' = nodes
    /\ build' = "unchecked"
    /\ NextEdge
    /\ UNCHANGED <<directed, call, queries, start, end, first>>

\* --------------------------------------------------------- specifications

\* Building a graph with any values, present or not, in any order.
NextGraph ==
    \/ \E v \in Values : AddNode(v)
    \/ \E f \in Values, t \in Values, w \in Weights : AddEdge(f, t, w)

SpecGraph == Init /\ [][NextGraph]_vars

\* Building a graph whose nodes are 1, 2, ... in this order, and costing
\* vectors of its nodes.
NextCost ==
    \/ \E v \in {Len(nodes) + 1} \cap NodeValues : AddNode(v)
    \/ \E f \in NodeValues, t \in NodeValues, w \in Weights : AddEdge(f, t, w)
    \/ \E path \in PathsUpTo(StoredValues, MaxPathLen) : PathCost(path)

SpecCost == Init /\ [][NextCost]_vars

\* Building a graph whose nodes are 1, 2, ... in this order, then querying
\* it: the graph is not changed after its first query.
Next ==
    \/ queries = 0 /\ \E v \in {Len(nodes) + 1} \cap NodeValues : AddNode(v)
    \/ queries = 0
       /\ \E f \in NodeValues, t \in NodeValues, w \in Weights :
             AddEdge(f, t, w)
    \/ \E s \in NodeValues, e \in NodeValues : FindPath(s, e)
    \/ Pop
    \/ VisitEnd
    \/ VisitEdge
    \/ VisitEdgeOverflowPanic
    \/ VisitEdgeOverflowWrap

Spec == Init /\ [][Next]_vars

\* Building a graph whose nodes are 1, 2, ... in this order, then making one
\* query and repeating it.
NextRepeat ==
    \/ queries = 0 /\ \E v \in {Len(nodes) + 1} \cap NodeValues : AddNode(v)
    \/ queries = 0
       /\ \E f \in NodeValues, t \in NodeValues, w \in Weights :
             AddEdge(f, t, w)
    \/ queries = 0 /\ \E s \in NodeValues, e \in NodeValues : FindPath(s, e)
    \/ FindPathAgain
    \/ Pop
    \/ VisitEnd
    \/ VisitEdge
    \/ VisitEdgeOverflowPanic
    \/ VisitEdgeOverflowWrap

SpecRepeat == Init /\ [][NextRepeat]_vars

\* ------------------------------------------------------- claims: the graph

\* The edge list es begins with the edge list old.
ExtendsEdges(old, es) ==
    /\ Len(es) >= Len(old)
    /\ SubSeq(es, 1, Len(old)) = old

NoDuplicateValues ==
    \A i \in 1..Len(nodes), j \in 1..Len(nodes) :
        nodes[i].value = nodes[j].value => i = j

NoDuplicateTargets ==
    \A i \in 1..Len(nodes) :
        \A j \in 1..Len(nodes[i].edges), k \in 1..Len(nodes[i].edges) :
            nodes[i].edges[j].node = nodes[i].edges[k].node => j = k

\* Node a holds an edge to b of weight w.
EdgeOf(a, b, w) ==
    \E k \in 1..Len(a.edges) : a.edges[k].node = b /\ a.edges[k].weight = w

\* C5: calculate_path_cost returns 0 (and does not fail) for every node
\* sequence of length 0 and of length 1.
C5_ShortPathCostsZero ==
    (call.op = "calculate_path_cost" /\ Len(call.path) <= 1)
        => (~call.panic /\ call.cost = 0)

\* C6: stored nodes never share a value; add_node of a stored value returns
\* None and leaves the node sequence as it was; any other add_node returns
\* Some and appends exactly one node, of that value.
C6_AddNodeUnique ==
    /\ []NoDuplicateValues
    /\ [][call'.op = "add_node" =>
            IF call'.from \in StoredValues
            THEN ~call'.ret /\ nodes' = nodes
            ELSE /\ call'.ret
                 /\ Len(nodes') = Len(nodes) + 1
                 /\ SubSeq(nodes', 1, Len(nodes)) = nodes
                 /\ nodes'[Len(nodes')].value = call'.from]_vars

\* An add_node of a stored value has returned None on a graph of two nodes.
C6_Witness ==
    /\ call.op = "add_node"
    /\ ~call.ret
    /\ call.from \in StoredValues
    /\ Len(nodes) >= 2

\* C7: add_edge returns false if and only if from or to is absent from the
\* graph, and true when both are present.
C7_AddEdgeReturn ==
    call.op = "add_edge"
        => (call.ret <=> (call.from \in StoredValues /\ call.to \in StoredValues))

\* C8: no node holds two edges with the same target; an edge, once held,
\* keeps its place and weight; an add_edge for a pair that has an edge leaves
\* from's edge list as it was, whatever the weight.
C8_FirstWins ==
    /\ []NoDuplicateTargets
    /\ [][/\ \A i \in 1..Len(nodes) :
                ExtendsEdges(nodes[i].edges, nodes'[i].edges)
          /\ (/\ call'.op = "add_edge"
              /\ call'.from \in StoredValues
              /\ HasEdgeTo(GetNode(nodes, call'.from), call'.to))
                => GetNode(nodes', call'.from).edges
                      = GetNode(nodes, call'.from).edges]_vars

\* add_edge(from, to, w) was called when from held an edge to `to` of another
\* weight, which it still holds.
C8_Witness ==
    /\ call.op = "add_edge"
    /\ call.from \in StoredValues
    /\ \E w \in Weights :
          /\ w # call.weight
          /\ EdgeOf(GetNode(nodes, call.from), call.to, w)

\* C9: in an undirected graph, for distinct stored nodes a and b, a holds an
\* edge to b of weight w if and only if b holds an edge to a of weight w.
C9_UndirectedSymmetric ==
    ~directed =>
        \A i \in 1..Len(nodes), j \in 1..Len(nodes), w \in Weights :
            i # j => (EdgeOf(nodes[i], nodes[j].value, w)
                        <=> EdgeOf(nodes[j], nodes[i].value, w))

\* An undirected graph after an add_edge between two distinct nodes, which
\* hold edges to each other.
C9_Witness ==
    /\ ~directed
    /\ call.op = "add_edge"
    /\ call.from # call.to
    /\ call.from \in StoredValues
    /\ call.to \in StoredValues
    /\ EdgeOf(GetNode(nodes, call.from), call.to, call.weight)
    /\ EdgeOf(GetNode(nodes, call.to), call.from, call.weight)

\* C10: in a directed graph, add_edge(from, to, w) with from # to changes at
\* most the edge list of from: every other node, to included, is left as it
\* was.
C10_DirectedFrame ==
    [][(directed /\ call'.op = "add_edge" /\ call'.from # call'.to)
          => /\ Len(nodes') = Len(nodes)
             /\ \A i \in 1..Len(nodes) :
                   nodes[i].value # call'.from => nodes'[i] = nodes[i]]_vars

\* A directed graph after add_edge(from, to, w): from holds the edge and to
\* holds no edge back.
C10_Witness ==
    /\ directed
    /\ call.op = "add_edge"
    /\ call.from # call.to
    /\ call.from \in StoredValues
    /\ call.to \in StoredValues
    /\ EdgeOf(GetNode(nodes, call.from), call.to, call.weight)
    /\ ~HasEdgeTo(GetNode(nodes, call.to), call.from)

\* --------------------------------------------------- claims: find_path

\* The last call was find_path and it has returned.
Returned == call.op = "find_path" /\ pc = "idle"

\* The find_path that runs or has returned is the first on this graph.
FirstQuery == call.op = "find_path" /\ queries = 1

\* p is a route: each node of p holds an edge to the next one.
IsRoute(p) ==
    \A i \in 1..(Len(p) - 1) : HasEdgeTo(GetNode(nodes, p[i]), p[i + 1])

\* The routes from s to e of at most as many nodes as the graph has: every
\* route without a repeated node is among them.
Routes(s, e) ==
    {p \in PathsUpTo(StoredValues, Len(nodes)) :
        Len(p) >= 2 /\ p[1] = s /\ p[Len(p)] = e /\ IsRoute(p)}

\* The weight of the edge a -> b (add_edge keeps at most one).
WeightOf(a, b) ==
    LET es == GetNode(nodes, a).edges
    IN  es[CHOOSE k \in 1..Len(es) : es[k].node = b].weight

\* The total edge weight of route p from its i-th node on.
RECURSIVE RouteWeight(_, _)
RouteWeight(p, i) ==
    IF i >= Len(p) THEN 0 ELSE WeightOf(p[i], p[i + 1]) + RouteWeight(p, i + 1)

\* C1: on a freshly built graph, a path find_path returns for distinct
\* present start and end has the least total edge weight of all routes from
\* start to end.
C1_ShortestPath ==
    (Returned /\ FirstQuery /\ result.kind = "Ok")
        => \A p \in Routes(start, end) :
              CalculatePathCost(nodes, result.path).cost <= RouteWeight(p, 1)

\* C2: on a freshly built graph with start and end present and distinct and
\* no route from start to end, find_path does not return Ok: it returns
\* CannotFindPath("No path found").
C2_NoRouteNoPath ==
    (/\ Returned
     /\ FirstQuery
     /\ start # end
     /\ start \in StoredValues
     /\ end \in StoredValues
     /\ Routes(start, end) = {})
        => result = CannotFindPath("No path found")

\* C3: whenever find_path returns Ok(path), on a fresh or a used graph, path
\* has at least two elements, the first is start and the last is end.
C3_PathEndpoints ==
    (Returned /\ result.kind = "Ok")
        => /\ Len(result.path) >= 2
           /\ result.path[1] = start
           /\ result.path[Len(result.path)] = end

\* The second find_path on a graph has returned a path of three nodes or more.
C3_Witness ==
    /\ Returned
    /\ queries = 2
    /\ result.kind = "Ok"
    /\ Len(result.path) >= 3

\* C4: find_path fails with the reason of the first failing check among:
\* the graph has no nodes, start equals end, end is absent, start is absent.
C4_PrecheckOrder ==
    call.op = "find_path" =>
        /\ Len(nodes) = 0
              => result = CannotFindPath("No nodes exist in graph")
        /\ (Len(nodes) > 0 /\ start = end)
              => result = CannotFindPath("Start and end nodes are the same")
        /\ (Len(nodes) > 0 /\ start # end /\ end \notin StoredValues)
              => result = CannotFindPath("End node does not exist in graph")
        /\ (/\ Len(nodes) > 0
            /\ start # end
            /\ end \in StoredValues
            /\ start \notin StoredValues)
              => result = CannotFindPath("Start node does not exist in graph")

\* find_path was called on a graph with nodes, with distinct start and end
\* both absent, and failed for the missing end.
C4_Witness ==
    /\ Returned
    /\ Len(nodes) > 0
    /\ start # end
    /\ start \notin StoredValues
    /\ end \notin StoredValues
    /\ result = CannotFindPath("End node does not exist in graph")

\* C11: find_path repeated with the same start and end on an unchanged graph
\* returns what the first call on the fresh graph returned, however the ties
\* in the queue fall.
C11_RepeatSameResult ==
    (Returned /\ queries >= 2) => result = first

\* C12: find_path never resets the scratch state.  No step raises a node's
\* distance; the entry of find_path writes only start's distance, to 0, and
\* leaves every path; any other write lowers the distance of a node still in
\* the queue, during the for loop.  So a query starts from the distance and
\* path the query before it left.
C12_ScratchKept ==
    [][\A i \in 1..Len(nodes) :
          /\ nodes'[i].value = nodes[i].value
          /\ nodes'[i].distance <= nodes[i].distance
          /\ (pc = "idle" /\ call'.op = "find_path")
                => /\ nodes'[i].path = nodes[i].path
                   /\ \/ nodes'[i].distance = nodes[i].distance
                      \/ /\ nodes[i].value = start'
                         /\ nodes'[i].distance = 0
          /\ (~(pc = "idle" /\ call'.op = "find_path")
                /\ << nodes'[i].distance, nodes'[i].path >>
                      # << nodes[i].distance, nodes[i].path >>)
                => /\ pc = "edges"
                   /\ nodes[i].value \in unvisited
                   /\ nodes'[i].distance < nodes[i].distance]_vars

\* A second find_path has passed its entry: a node other than its start still
\* holds the distance and the path that the first find_path gave it.
C12_Witness ==
    /\ queries = 2
    /\ pc = "loop"
    /\ unvisited = StoredValues
    /\ \E i \in 1..Len(nodes) :
          /\ nodes[i].value # start
          /\ nodes[i].distance < U32_MAX
          /\ nodes[i].path # <<>>

\* The distance of stored node v is the least total edge weight of the routes
\* from start to v (0 for start itself).
HoldsLeastWeight(v) ==
    IF v = start
    THEN GetNode(nodes, v).distance = 0
    ELSE /\ \E p \in Routes(start, v) :
              GetNode(nodes, v).distance = RouteWeight(p, 1)
         /\ \A p \in Routes(start, v) :
              GetNode(nodes, v).distance <= RouteWeight(p, 1)

\* During the first find_path on a graph, a node that has left the queue with
\* a distance other than u32::MAX holds the least route weight from start.
PoppedAreSettled ==
    (FirstQuery /\ pc \in {"loop", "edges"})
        => \A v \in StoredValues \ unvisited :
              GetNode(nodes, v).distance # U32_MAX => HoldsLeastWeight(v)

\* C13: during find_path on a freshly built graph, a node removed from the
\* queue with a distance other than u32::MAX holds the least total edge weight
\* of all routes from start to it, and no later step of the query changes the
\* distance of a node that has left the queue.
C13_SettledOnPop ==
    /\ []PoppedAreSettled
    /\ [][(FirstQuery /\ pc \in {"loop", "edges"})
            => \A i \in 1..Len(nodes) :
                  nodes[i].value \notin unvisited
                     => nodes'[i].distance = nodes[i].distance]_vars

\* The same without the wrapped sums of builds without overflow checks.
C13_SettledUnlessWrapped ==
    (build # "unchecked") => PoppedAreSettled

\* C14: whenever find_path returns Ok(path), on a fresh or a used graph, every
\* node of path holds an edge to the node after it.
C14_ReturnedRoute ==
    (Returned /\ result.kind = "Ok") => IsRoute(result.path)

\* C15: the sum closest.distance + edge.weight that find_path computes for an
\* edge to a node still in the queue fits u32, also when closest holds
\* u32::MAX.
C15_NoOverflow ==
    pc = "edges" =>
        LET c == GetNode(nodes, closest)
            e == c.edges[ei]
        IN  (e.node # end /\ e.node \in unvisited)
                => ~AddU32(c.distance, e.weight).overflow

\* The queue only shrinks during a query: the while loop, when the queue is
\* not empty, removes exactly one node from it, the one it visits next; the
\* for loop removes and inserts none until find_path returns.
FrontierShrinks ==
    [][/\ (pc = "loop" /\ unvisited # {})
            => /\ closest' \in unvisited
               /\ unvisited' = unvisited \ {closest'}
       /\ (pc = "edges" /\ pc' # "idle") => unvisited' = unvisited]_vars

\* find_path has not failed with CannotFindClosestNode.
NeverCannotFindClosestNode ==
    result.kind # "CannotFindClosestNode"

\* find_path has not panicked: it runs, or it has returned Ok or
\* CannotFindPath.
EndsWithOkOrCannotFindPath ==
    call.op = "find_path" =>
        /\ pc # "panicked"
        /\ pc = "idle" => result.kind \in {"Ok", "CannotFindPath"}

\* C16: every find_path call ends with Ok or Err(CannotFindPath); each pass
\* of the while loop removes exactly one node from the queue and none is put
\* back, so there are at most as many passes as nodes; CannotFindClosestNode
\* is never returned.
C16_Terminates ==
    /\ []EndsWithOkOrCannotFindPath
    /\ []NeverCannotFindClosestNode
    /\ FrontierShrinks

====
